---- MODULE Spec2Model ----
(***************************************************************************)
(* A model of datacube_utilities: load_ard (dea_datahandling.py), the      *)
(* loader that validates a product list, loads every product through the   *)
(* datacube, masks it, and combines the per-product stacks into one        *)
(* time-sorted stack; and mask_good_quality (masking.py), the per-family   *)
(* good-pixel classifier.                                                  *)
(*                                                                         *)
(* A product name is a sequence of characters, so that `"ls" in product`   *)
(* (substring) and product.startswith("s2") (prefix) are computed as       *)
(* Python computes them.  A dataset ("stack") is a record                  *)
(*   [dtype, dask, obs]                                                    *)
(* where obs is the sequence of observations along the time axis, each     *)
(*   [time, src, px]                                                       *)
(* with px the sequence of pixels of the spatial extent, and each pixel a  *)
(* record of the values of the data variables [data, qa, contig].  A value *)
(* is [nan |-> FALSE, v |-> n] or NaN.                                     *)
(***************************************************************************)
EXTENDS Integers, Sequences, FiniteSets, TLC

VARIABLES
    dc,                 \* the Datacube handed to load_ard (names what it can return)
    products,           \* parameter `products`: NoneValue or a sequence of names
    min_gooddata,       \* parameter, in percent (0 is 0.0, 100 is 1.0)
    mask_pixel_quality, \* parameter
    mask_invalid_data,  \* parameter
    mask_contiguity,    \* parameter: FALSE or the name of the contiguity variable
    lazy_load,          \* "dask_chunks" in dcload_kwargs
    pc,                 \* position in load_ard: start, loop, combine, done
    idx,                \* number of products the for loop has taken so far
    product_data,       \* the list product_data
    calls,              \* every dc.load call so far, with what it did
    warned,             \* whether warnings.warn was called
    computes,           \* number of .compute() calls
    result,             \* how load_ard ended: raised error or returned value
    ds,                 \* mask_good_quality: argument ds
    product,            \* mask_good_quality: argument product
    good_quality        \* mask_good_quality: what the call gave

vars == <<dc, products, min_gooddata, mask_pixel_quality, mask_invalid_data,
          mask_contiguity, lazy_load, pc, idx, product_data, calls, warned,
          computes, result, ds, product, good_quality>>

loadVars == <<dc, products, min_gooddata, mask_pixel_quality, mask_invalid_data,
              mask_contiguity, lazy_load, pc, idx, product_data, calls, warned,
              computes, result>>

maskVars == <<ds, product, good_quality>>

----------------------------------------------------------------------------
(* Bounds of the model *)

MaxProducts == 2
MaxObs == 3
MaxTime == 2
NPix == 2

----------------------------------------------------------------------------
(* Product names, as character sequences *)

ls8_usgs == <<"l", "s", "8">>
ls7_usgs == <<"l", "s", "7">>
s2_esa == <<"s", "2", "a">>
ga_ls == <<"g", "a", "_", "l", "s">>
s2_ls == <<"s", "2", "_", "l", "s">>
other_name == <<"f", "o", "o">>

ProductNames == {ls8_usgs, ls7_usgs, s2_esa, ga_ls, s2_ls, other_name}

NoneValue == <<"None">>

\* Python's `sub in s` on strings
Contains(sub, s) ==
    \E k \in 0..(Len(s) - Len(sub)) : SubSeq(s, k + 1, k + Len(sub)) = sub

\* Python's s.startswith(pre)
StartsWith(s, pre) ==
    Len(s) >= Len(pre) /\ SubSeq(s, 1, Len(pre)) = pre

----------------------------------------------------------------------------
(* mask_good_quality (masking.py) *)

\* the ten pixel_qa codes of the ls8 branch, with a slip: 1348 left out
GoodLs8Dropped(q) ==
    \/ q = 322 \/ q = 386 \/ q = 834 \/ q = 898 \/ q = 1346
    \/ q = 324 \/ q = 388 \/ q = 836 \/ q = 900

GoodS2(q) == q = 4 \/ q = 5 \/ q = 6 \/ q = 7

GoodLs8(q) ==
    \/ q = 322 \/ q = 386 \/ q = 834 \/ q = 898 \/ q = 1346
    \/ q = 324 \/ q = 388 \/ q = 836 \/ q = 900 \/ q = 1348

GoodDefault(q) == q = 66 \/ q = 130 \/ q = 68 \/ q = 132

\* the quality variable the branch taken for `p` reads
QualityVar(p) ==
    IF StartsWith(p, <<"s", "2">>) THEN "scene_classification" ELSE "pixel_qa"

\* the branch taken for `p`, on one coded value
GoodCode(p, q) ==
    IF StartsWith(p, <<"s", "2">>) THEN GoodS2(q)
    ELSE IF StartsWith(p, <<"l", "s", "8">>) THEN GoodLs8(q)
    ELSE GoodDefault(q)

\* d is [var |-> name of the quality variable d holds, codes |-> its pixels];
\* reading a variable d does not hold raises AttributeError
mask_good_quality(d, p) ==
    IF d.var # QualityVar(p)
    THEN [raised |-> "AttributeError", mask |-> <<>>]
    ELSE [raised |-> "",
          mask |-> [k \in 1..Len(d.codes) |-> GoodCode(p, d.codes[k])]]

----------------------------------------------------------------------------
(* Values, pixels and stacks *)

NaN == [nan |-> TRUE, v |-> 0]

Val(n) == [nan |-> FALSE, v |-> n]

\* the nodata attribute of the band variable ("invalid -999 nodata values")
NoData == -999

\* the dtype a product is stored in, and the default of mask_dtype
StoredDtype == "int16"
mask_dtype == "float32"

Pixel(b, q, c) == [data |-> Val(b), qa |-> Val(q), contig |-> Val(c)]

\* numpy's truth value of an array element used as a condition
Truthy(x) == x.nan \/ x.v # 0

\* the stack of a loaded product: a deferred handle on stored integers;
\* src remembers where an observation came from: <<n, k>> is the k-th time
\* step of what dc.load returned for the n-th product of the list
Loaded(o, n) ==
    [dtype |-> StoredDtype, dask |-> TRUE,
     obs |-> [k \in 1..Len(o.obs) |->
                [time |-> o.obs[k].time, src |-> <<n, k>>, px |-> o.obs[k].px]]]

EmptyDs == [dtype |-> StoredDtype, dask |-> TRUE, obs |-> <<>>]

----------------------------------------------------------------------------
(* The steps of load_ard's masking *)

astype_attrs(d, dtype) == [d EXCEPT !.dtype = dtype]

\* Dataset.where(cond) with cond a Dataset: variable by variable, a value is
\* kept where the same variable of cond is truthy and is NaN elsewhere
where(d, cond) ==
    [d EXCEPT !.obs =
        [k \in 1..Len(d.obs) |->
            [d.obs[k] EXCEPT !.px =
                [j \in 1..Len(d.obs[k].px) |->
                    [var \in {"data", "qa", "contig"} |->
                        IF Truthy(cond.obs[k].px[j][var])
                        THEN d.obs[k].px[j][var]
                        ELSE NaN]]]]]

\* datacube's masking.mask_invalid_data: a value equal to the variable's
\* nodata attribute becomes NaN.  Only the band variable's nodata value
\* occurs among the modelled values.
mask_invalid(d) ==
    [d EXCEPT !.obs =
        [k \in 1..Len(d.obs) |->
            [d.obs[k] EXCEPT !.px =
                [j \in 1..Len(d.obs[k].px) |->
                    [d.obs[k].px[j] EXCEPT !.data =
                        IF ~@.nan /\ @.v = NoData THEN NaN ELSE @]]]]]

\* a masking that ignores its switches
MaskProductAlways(d, mpq, mid) ==
    mask_invalid(where(astype_attrs(d, mask_dtype), d))

\* the body of `if len(ds.time) > 0:` up to the append
MaskProduct(d, mpq, mid) ==
    LET good == d
        d1 == IF mpq THEN where(astype_attrs(d, mask_dtype), good) ELSE d
        d2 == IF mid THEN mask_invalid(astype_attrs(d1, mask_dtype)) ELSE d1
    IN d2

----------------------------------------------------------------------------
(* Concatenation and sorting *)

RECURSIVE concat(_)
concat(list) ==
    IF list = <<>> THEN <<>>
    ELSE Head(list).obs \o concat(Tail(list))

\* insert o after every element whose time is <= o.time (stable)
RECURSIVE InsertByTime(_, _)
InsertByTime(s, o) ==
    IF s = <<>> THEN <<o>>
    ELSE IF Head(s).time <= o.time THEN <<Head(s)>> \o InsertByTime(Tail(s), o)
    ELSE <<o>> \o s

\* a sort that leaves the concatenation order
NoSort(s) == s

RECURSIVE sortby_time(_)
sortby_time(s) ==
    IF s = <<>> THEN <<>>
    ELSE InsertByTime(sortby_time(SubSeq(s, 1, Len(s) - 1)), s[Len(s)])

\* xr.concat(product_data, dim="time").sortby("time")
Combined(list) ==
    [dtype |-> list[1].dtype, dask |-> TRUE, obs |-> sortby_time(concat(list))]

----------------------------------------------------------------------------
(* What the datacube can return *)

\* measurements a query may name that a product does not have
Bands == {"X", "Y"}

CleanPixel == Pixel(7, 322, 1)

\* band value: nodata, zero, a reading; quality code: good for ls8 only,
\* good for s2 only; contiguity: 0 or 1
PixelSet == {Pixel(b, q, c) : b \in {NoData, 0, 7}, q \in {322, 4}, c \in {0, 1}}

SeqsUpTo(S, n) == UNION {[1..k -> S] : k \in 0..n}

Failure(kind, band) == [kind |-> kind, band |-> band, obs |-> <<>>]

Dataset(obs) == [kind |-> "dataset", band |-> "", obs |-> obs]

\* The outcomes of one dc.load call:
\*   KeyError        a requested measurement does not exist in the product
\*   AttributeError  the call raises AttributeError
\*   novars          a Dataset without variables: reading ds.time raises
\*                   AttributeError
\*   dataset         a Dataset with len(ds.time) = Len(obs)
SeriesOutcomes ==
    {Failure("KeyError", b) : b \in Bands}
    \cup {Failure("AttributeError", ""), Failure("novars", "")}
    \cup {Dataset(o) : o \in SeqsUpTo([time : 1..MaxTime,
                                       px : [1..NPix -> {CleanPixel}]], MaxObs)}

PixelOutcomes ==
    {Dataset(<<[time |-> 1, px |-> px]>>) : px \in [1..NPix -> PixelSet]}

SingleOutcomes ==
    {Dataset(<<[time |-> 1, px |-> [j \in 1..NPix |-> CleanPixel]]>>)}

Outcomes(d) ==
    IF d = "dc_series" THEN SeriesOutcomes
    ELSE IF d = "dc_pixels" THEN PixelOutcomes
    ELSE SingleOutcomes

RECURSIVE ObsLoaded(_)
ObsLoaded(cs) ==
    IF cs = <<>> THEN 0 ELSE Len(Head(cs).outcome.obs) + ObsLoaded(Tail(cs))

----------------------------------------------------------------------------
(* load_ard *)

Running == [kind |-> "running", why |-> "", band |-> "", products |-> <<>>,
            ds |-> EmptyDs]

\* why: "no_products" and "mixed" (lines 195, 209), "band" (line 236), or
\* the type of an exception no handler of load_ard caught
Raise(why, band, prods) ==
    [kind |-> "raised", why |-> why, band |-> band, products |-> prods,
     ds |-> EmptyDs]

Return(kind, d) ==
    [kind |-> kind, why |-> "", band |-> "", products |-> <<>>, ds |-> d]

\* `not products`
NotProducts(ps) == ps = NoneValue \/ ps = <<>>

AllContain(ps, sub) == \A k \in 1..Len(ps) : Contains(sub, ps[k])

\* a validation that tests `products is None` only
ValidationNoneOnly(ps) ==
    IF ps = NoneValue THEN "no_products"
    ELSE IF AllContain(ps, <<"l", "s">>) THEN ""
    ELSE IF AllContain(ps, <<"s", "2">>) THEN ""
    ELSE "mixed"

\* a validation with any() in place of all()
ValidationAny(ps) ==
    IF NotProducts(ps) THEN "no_products"
    ELSE IF \E k \in 1..Len(ps) : Contains(<<"l", "s">>, ps[k]) THEN ""
    ELSE IF \E k \in 1..Len(ps) : Contains(<<"s", "2">>, ps[k]) THEN ""
    ELSE "mixed"

\* lines 194-212: "" when the list passes, else why ValueError is raised
Validation(ps) ==
    IF NotProducts(ps) THEN "no_products"
    ELSE IF AllContain(ps, <<"l", "s">>) THEN ""
    ELSE IF AllContain(ps, <<"s", "2">>) THEN ""
    ELSE "mixed"

\* lines 177-215
Validate ==
    /\ pc = "start"
    /\ warned' = ((min_gooddata > 0) /\ lazy_load)
    /\ IF Validation(products) # ""
       THEN /\ result' = Raise(Validation(products), "", <<>>)
            /\ pc' = "done"
       ELSE /\ result' = result
            /\ pc' = IF Len(products) > 0 THEN "loop" ELSE "combine"
    /\ UNCHANGED <<dc, products, min_gooddata, mask_pixel_quality,
                   mask_invalid_data, mask_contiguity, lazy_load, idx,
                   product_data, calls, computes>>
    /\ UNCHANGED maskVars

\* the exception the try body (lines 220-279) raises on outcome o, "" if none:
\* a KeyError of dc.load is re-raised as ValueError (lines 235-240)
Raises(o) ==
    IF o.kind = "KeyError" THEN "ValueError"
    ELSE IF o.kind \in {"AttributeError", "novars"} THEN "AttributeError"
    ELSE ""

\* a handler that lets every exception through
CaughtNothing(exc) == FALSE

\* a handler that contains every exception
CaughtAll(exc) == TRUE

\* `except AttributeError:` (line 283)
Caught(exc) == exc = "AttributeError"

\* a test that also takes a stack without time steps
AnyDataOrNone(d) == Len(d.obs) >= 0

\* `if len(ds.time) > 0:` (line 250)
AnyData(d) == Len(d.obs) > 0

\* lines 218-284: one iteration of `for product in products`
LoadProduct ==
    /\ pc = "loop"
    /\ idx < Len(products)
    /\ \E o \in Outcomes(dc) :
        /\ ObsLoaded(calls) + Len(o.obs) <= MaxObs
        /\ calls' = Append(calls,
                [product |-> products[idx + 1],
                 dask_chunks |-> IF lazy_load THEN "query" ELSE "{}",
                 outcome |-> o])
        /\ IF Raises(o) # "" /\ ~Caught(Raises(o))
           THEN /\ result' = IF o.kind = "KeyError"
                             THEN Raise("band", o.band, products)
                             ELSE Raise(Raises(o), "", <<>>)
                /\ pc' = "done"
                /\ UNCHANGED <<idx, product_data>>
           ELSE /\ result' = result
                /\ idx' = idx + 1
                /\ pc' = IF idx + 1 < Len(products) THEN "loop" ELSE "combine"
                /\ product_data' =
                     IF Raises(o) = "" /\ AnyData(Loaded(o, idx + 1))
                     THEN Append(product_data,
                                 MaskProduct(Loaded(o, idx + 1),
                                             mask_pixel_quality, mask_invalid_data))
                     ELSE product_data
    /\ UNCHANGED <<dc, products, min_gooddata, mask_pixel_quality,
                   mask_invalid_data, mask_contiguity, lazy_load, warned, computes>>
    /\ UNCHANGED maskVars

\* a return that evaluates the combined stack in either mode
CombineComputeAlways ==
    /\ pc = "combine"
    /\ pc' = "done"
    /\ IF Len(product_data) > 0
       THEN /\ result' = Return("dataset",
                                [Combined(product_data) EXCEPT !.dask = FALSE])
            /\ computes' = computes + 1
       ELSE /\ result' = Return("None", EmptyDs)
            /\ computes' = computes
    /\ UNCHANGED <<dc, products, min_gooddata, mask_pixel_quality,
                   mask_invalid_data, mask_contiguity, lazy_load, idx,
                   product_data, calls, warned>>
    /\ UNCHANGED maskVars

\* lines 286-305
Combine ==
    /\ pc = "combine"
    /\ pc' = "done"
    /\ IF Len(product_data) > 0
       THEN IF lazy_load
            THEN /\ result' = Return("dataset", Combined(product_data))
                 /\ computes' = computes
            ELSE /\ result' = Return("dataset",
                                     [Combined(product_data) EXCEPT !.dask = FALSE])
                 /\ computes' = computes + 1
       ELSE /\ result' = Return("None", EmptyDs)
            /\ computes' = computes
    /\ UNCHANGED <<dc, products, min_gooddata, mask_pixel_quality,
                   mask_invalid_data, mask_contiguity, lazy_load, idx,
                   product_data, calls, warned>>
    /\ UNCHANGED maskVars

Next == Validate \/ LoadProduct \/ Combine

----------------------------------------------------------------------------
(* Initial states *)

NoMaskCall ==
    /\ ds = [var |-> "", codes |-> <<>>]
    /\ product = <<>>
    /\ good_quality = [raised |-> "idle", mask |-> <<>>]

Entry ==
    /\ pc = "start"
    /\ idx = 0
    /\ product_data = <<>>
    /\ calls = <<>>
    /\ warned = FALSE
    /\ computes = 0
    /\ result = Running

\* load_ard over a datacube holding a short time series per product
Init ==
    /\ dc = "dc_series"
    /\ products \in SeqsUpTo({ls8_usgs, ls7_usgs, s2_esa}, MaxProducts) \ {<<>>}
    /\ min_gooddata = 0
    /\ mask_pixel_quality \in BOOLEAN
    /\ mask_invalid_data \in BOOLEAN
    /\ mask_contiguity = "nbart_contiguity"
    /\ lazy_load \in BOOLEAN
    /\ Entry
    /\ NoMaskCall

Spec == Init /\ [][Next]_vars

\* load_ard over every product list, the datacube holding one observation
\* per product
InitNames ==
    /\ dc = "dc_single"
    /\ products \in SeqsUpTo(ProductNames, MaxProducts) \cup {NoneValue}
    /\ min_gooddata \in {0, 50, 100}
    /\ mask_pixel_quality \in BOOLEAN
    /\ mask_invalid_data \in BOOLEAN
    /\ mask_contiguity \in {"False", "nbart_contiguity"}
    /\ lazy_load \in BOOLEAN
    /\ Entry
    /\ NoMaskCall

SpecNames == InitNames /\ [][Next]_vars

\* load_ard over one product with one observation, over every content of
\* its pixels
InitPixels ==
    /\ dc = "dc_pixels"
    /\ products \in {<<ls8_usgs>>, <<s2_esa>>}
    /\ min_gooddata \in {0, 50, 100}
    /\ mask_pixel_quality \in BOOLEAN
    /\ mask_invalid_data \in BOOLEAN
    /\ mask_contiguity \in {"False", "nbart_contiguity"}
    /\ lazy_load \in BOOLEAN
    /\ Entry
    /\ NoMaskCall

SpecPixels == InitPixels /\ [][Next]_vars

----------------------------------------------------------------------------
(* mask_good_quality, called on its own (as geomedian.py does) *)

\* coded values: every acceptable code of the three branches, and others
Codes == {0, 1, 3, 4, 5, 6, 7, 8, 66, 68, 130, 132, 133,
          322, 323, 324, 386, 388, 834, 836, 898, 900, 1346, 1348, 1350}

CallMask ==
    /\ good_quality.raised = "pending"
    /\ good_quality' = mask_good_quality(ds, product)
    /\ UNCHANGED <<ds, product>>
    /\ UNCHANGED loadVars

NextMask == CallMask

InitMask ==
    /\ ds \in [var : {"scene_classification", "pixel_qa"},
               codes : [1..NPix -> Codes]]
    /\ product \in ProductNames
    /\ good_quality = [raised |-> "pending", mask |-> <<>>]
    /\ dc = "dc_single"
    /\ products = NoneValue
    /\ min_gooddata = 0
    /\ mask_pixel_quality = TRUE
    /\ mask_invalid_data = TRUE
    /\ mask_contiguity = "nbart_contiguity"
    /\ lazy_load = FALSE
    /\ pc = "idle"
    /\ idx = 0
    /\ product_data = <<>>
    /\ calls = <<>>
    /\ warned = FALSE
    /\ computes = 0
    /\ result = Running

SpecMask == InitMask /\ [][NextMask]_vars

----------------------------------------------------------------------------
(* Vocabulary of the properties *)

Done == pc = "done"

\* the n-th call ended in a failure that AttributeError reports
Failed(n) == calls[n].outcome.kind \in {"AttributeError", "novars"}

KeyErrorAt(n) == calls[n].outcome.kind = "KeyError"

\* the n-th call returned a stack, with this many time steps
StackAt(n) == calls[n].outcome.kind = "dataset"

StepsAt(n) == IF StackAt(n) THEN Len(calls[n].outcome.obs) ELSE 0

\* the list names products and passes lines 194-212
OneFamily ==
    /\ products # NoneValue
    /\ products # <<>>
    /\ \/ \A k \in 1..Len(products) : Contains(<<"l", "s">>, products[k])
       \/ \A k \in 1..Len(products) : Contains(<<"s", "2">>, products[k])

\* number of observations of stack d that came from the n-th product
ObsFrom(d, n) == Cardinality({k \in 1..Len(d.obs) : d.obs[k].src[1] = n})

\* the pixels dc.load returned for the observation o of a returned stack
InputPx(o) == calls[o.src[1]].outcome.obs[o.src[2]].px

Sorted(s) == \A j, k \in 1..Len(s) : j < k => s[j].time <= s[k].time

RECURSIVE SumObs(_)
SumObs(list) ==
    IF list = <<>> THEN 0 ELSE Len(Head(list).obs) + SumObs(Tail(list))

----------------------------------------------------------------------------
(* C1: for a non-empty products list of one family, when the only failures *)
(* are per-product structural failures (AttributeError), load_ard does not *)
(* raise: it goes on to every product of the list, and what it returns     *)
(* holds all observations of the products that did not fail and none of    *)
(* any other; if every product failed it returns None.                     *)

C1_StructuralFailureContained ==
    (Done /\ OneFamily /\ \A n \in 1..Len(calls) : ~KeyErrorAt(n)) =>
        /\ result.kind \in {"dataset", "None"}
        /\ Len(calls) = Len(products)
        /\ \A n \in 1..Len(calls) :
              ObsFrom(result.ds, n) = IF Failed(n) THEN 0 ELSE StepsAt(n)
        /\ (\A n \in 1..Len(calls) : Failed(n)) => result.kind = "None"

\* Scenario D: the first product loads, the second fails, a stack is returned
C1_Witness ==
    /\ Done
    /\ Len(calls) = 2
    /\ StackAt(1) /\ StepsAt(1) > 0
    /\ Failed(2)
    /\ result.kind = "dataset"
    /\ ObsFrom(result.ds, 1) = Len(result.ds.obs)

(* C2: a returned stack is in non-decreasing time order, whatever the      *)
(* order of the products and of the time steps inside a product, and has   *)
(* as many observations as the stacks of product_data together.            *)

C2_SortedAndComplete ==
    result.kind = "dataset" =>
        /\ Sorted(result.ds.obs)
        /\ Len(result.ds.obs) = SumObs(product_data)

\* Scenario B: two products with data, the concatenation out of order
C2_Witness ==
    /\ result.kind = "dataset"
    /\ Len(product_data) = 2
    /\ ~Sorted(concat(product_data))
    /\ Len(result.ds.obs) >= 2

(* C6: when dc.load raises KeyError for a measurement, at whatever position*)
(* of the list, load_ard raises an error naming that measurement and the   *)
(* full products list; the per-product handler does not contain it, no     *)
(* stack is returned and no later product is loaded.                       *)

C6_MissingBandPropagates ==
    \A n \in 1..Len(calls) :
        KeyErrorAt(n) =>
            /\ n = Len(calls)
            /\ Done
            /\ result.kind = "raised"
            /\ result.why = "band"
            /\ result.band = calls[n].outcome.band
            /\ result.products = products

\* the first product gave data, the second raises the missing-band error
C6_Witness ==
    /\ Len(calls) = 2
    /\ StackAt(1) /\ StepsAt(1) > 0
    /\ product_data # <<>>
    /\ KeyErrorAt(2)
    /\ result.kind = "raised"

(* C7: with products empty or None, load_ard raises the configuration      *)
(* error and dc.load is never called, whatever the other parameters.       *)

C7_EmptyProductsRejected ==
    (products = NoneValue \/ products = <<>>) =>
        /\ calls = <<>>
        /\ pc \in {"start", "done"}
        /\ Done => (result.kind = "raised" /\ result.why = "no_products")

C7_Witness ==
    /\ products = <<>>
    /\ Done
    /\ result.why = "no_products"
    /\ lazy_load
    /\ min_gooddata > 0
    /\ ~mask_pixel_quality

(* C10: load_ard returns None exactly when validation passed and no        *)
(* product yielded a stack with at least one time step (each product gave  *)
(* zero time steps or a contained failure); a stack without time steps is  *)
(* never masked or appended; in every other case without error a combined  *)
(* stack is returned.                                                      *)

NoYield == \A n \in 1..Len(calls) : Failed(n) \/ (StackAt(n) /\ StepsAt(n) = 0)

C10_NoneExactlyWhenNoData ==
    /\ \A k \in 1..Len(product_data) :
          /\ Len(product_data[k].obs) > 0
          /\ \E n \in 1..Len(calls) :
                /\ StepsAt(n) > 0
                /\ \A j \in 1..Len(product_data[k].obs) :
                      product_data[k].obs[j].src[1] = n
    /\ Len(product_data) = Cardinality({n \in 1..Len(calls) : StepsAt(n) > 0})
    /\ Done =>
          /\ result.kind = "None" <=>
                (OneFamily /\ Len(calls) = Len(products) /\ NoYield)
          /\ result.kind = "dataset" <=>
                (OneFamily /\ Len(calls) = Len(products) /\ ~NoYield
                 /\ \A n \in 1..Len(calls) : ~KeyErrorAt(n))
          /\ result.kind = "dataset" => Len(result.ds.obs) > 0

\* one product returned a stack without time steps while masking was on,
\* another failed, and None came back
C10_Witness ==
    /\ Done
    /\ result.kind = "None"
    /\ mask_pixel_quality
    /\ \E n \in 1..Len(calls) : StackAt(n) /\ StepsAt(n) = 0
    /\ \E n \in 1..Len(calls) : Failed(n)

----------------------------------------------------------------------------
(* C3: an observation of a loaded product is in the result if and only if  *)
(* its good-pixel fraction, good pixels over all pixels of the spatial     *)
(* extent, is at least min_gooddata.                                       *)

\* pixels of px that the classifier of product p marks good
GoodCount(p, px) ==
    Cardinality({j \in 1..Len(px) : GoodCode(p, px[j].qa.v)})

\* good / total >= min_gooddata, with min_gooddata in percent
ReachesThreshold(p, px) == GoodCount(p, px) * 100 >= min_gooddata * Len(px)

Kept(n, k) == \E i \in 1..Len(result.ds.obs) : result.ds.obs[i].src = <<n, k>>

C3_KeptIffGoodFraction ==
    (Done /\ result.kind \in {"dataset", "None"}) =>
        \A n \in 1..Len(calls) :
            \A k \in 1..Len(calls[n].outcome.obs) :
                Kept(n, k) <=>
                    ReachesThreshold(products[n], calls[n].outcome.obs[k].px)

(* C4: a pixel of a kept observation is null in the output, in every       *)
(* variable, if and only if it fails an enabled mask: mask_pixel_quality   *)
(* and the classifier's mask is false, or mask_invalid_data and the pixel  *)
(* holds the nodata value, or mask_contiguity names a contiguity variable  *)
(* that is false for the pixel.                                            *)

FailsEnabledMask(p, inpx) ==
    \/ mask_pixel_quality /\ ~GoodCode(p, inpx.qa.v)
    \/ mask_invalid_data /\ inpx.data.v = NoData
    \/ mask_contiguity # "False" /\ inpx.contig.v = 0

C4_NullIffFailsEnabledMask ==
    result.kind = "dataset" =>
        \A i \in 1..Len(result.ds.obs) :
            \A j \in 1..Len(result.ds.obs[i].px) :
                \A var \in {"data", "qa", "contig"} :
                    result.ds.obs[i].px[j][var].nan <=>
                        FailsEnabledMask(products[result.ds.obs[i].src[1]],
                                         InputPx(result.ds.obs[i])[j])

(* C5: with mask_pixel_quality, mask_invalid_data and mask_contiguity all  *)
(* off, the returned stack has the dtype of the loaded stacks and every    *)
(* pixel value of it is the loaded value: nothing is nulled, nothing cast. *)

C5_MasksOffIdentity ==
    (result.kind = "dataset" /\ ~mask_pixel_quality /\ ~mask_invalid_data
        /\ mask_contiguity = "False") =>
        /\ result.ds.dtype = StoredDtype
        /\ \A i \in 1..Len(result.ds.obs) :
              /\ Len(result.ds.obs[i].px) = Len(InputPx(result.ds.obs[i]))
              /\ \A j \in 1..Len(result.ds.obs[i].px) :
                    \A var \in {"data", "qa", "contig"} :
                        result.ds.obs[i].px[j][var] =
                            InputPx(result.ds.obs[i])[j][var]

\* masks off, and the stack holds a nodata pixel and a zero reading that
\* the masks would have nulled
C5_Witness ==
    /\ result.kind = "dataset"
    /\ ~mask_pixel_quality /\ ~mask_invalid_data /\ mask_contiguity = "False"
    /\ \E j \in 1..Len(result.ds.obs[1].px) :
          result.ds.obs[1].px[j].data = Val(NoData)
    /\ \E j \in 1..Len(result.ds.obs[1].px) :
          result.ds.obs[1].px[j].data = Val(0)

----------------------------------------------------------------------------
(* C8: a products list with products of both sensor families raises the    *)
(* configuration error before any load attempt, and a list of one family   *)
(* passes validation; the family of a product being told by the prefix of  *)
(* its name, as mask_good_quality tells it.                                *)

\* two products that mask_good_quality sends to different quality variables
PrefixMixed ==
    \E j, k \in 1..Len(products) :
        StartsWith(products[j], <<"s", "2">>)
            # StartsWith(products[k], <<"s", "2">>)

Validated == pc # "start" /\ products # NoneValue /\ products # <<>>

RaisedMixed == Done /\ result.kind = "raised" /\ result.why = "mixed"

C8_PrefixFamiliesExclusive ==
    Validated =>
        IF PrefixMixed THEN RaisedMixed /\ calls = <<>> ELSE ~RaisedMixed

(* C8, amended: the test is on substrings, not on prefixes.  A non-empty   *)
(* list passes validation if and only if every name contains "ls" or every *)
(* name contains "s2"; for every other list, so for a list with a name     *)
(* without "ls" and a name without "s2", the configuration error is raised *)
(* before any load attempt.                                                *)

SubstringMixed ==
    /\ \E k \in 1..Len(products) : ~Contains(<<"l", "s">>, products[k])
    /\ \E k \in 1..Len(products) : ~Contains(<<"s", "2">>, products[k])

C8_SubstringFamiliesExclusive ==
    Validated =>
        IF SubstringMixed THEN RaisedMixed /\ calls = <<>> ELSE ~RaisedMixed

\* Scenario F: a Landsat name with a Sentinel-2 name
C8_Witness ==
    /\ RaisedMixed
    /\ calls = <<>>
    /\ Len(products) = 2
    /\ Contains(<<"l", "s">>, products[1]) /\ ~Contains(<<"s", "2">>, products[1])
    /\ Contains(<<"s", "2">>, products[2]) /\ ~Contains(<<"l", "s">>, products[2])

----------------------------------------------------------------------------
(* C9: mask_good_quality marks a pixel good if and only if its coded value *)
(* is in the acceptable set of the product's family, chosen by the prefix  *)
(* of the product name: "s2" reads scene_classification with {4,5,6,7},    *)
(* "ls8" reads pixel_qa with its ten codes, every other prefix reads       *)
(* pixel_qa with {66,130,68,132}; ds is left as it was.                    *)

AcceptS2 == {4, 5, 6, 7}
AcceptLs8 == {322, 386, 834, 898, 1346, 324, 388, 836, 900, 1348}
AcceptDefault == {66, 130, 68, 132}

Accept(p) ==
    IF SubSeq(p, 1, 2) = <<"s", "2">> THEN AcceptS2
    ELSE IF SubSeq(p, 1, 3) = <<"l", "s", "8">> THEN AcceptLs8
    ELSE AcceptDefault

ReadVar(p) ==
    IF SubSeq(p, 1, 2) = <<"s", "2">> THEN "scene_classification" ELSE "pixel_qa"

C9_GoodIffAcceptable ==
    good_quality.raised \notin {"idle", "pending"} =>
        IF ds.var = ReadVar(product)
        THEN /\ good_quality.raised = ""
             /\ Len(good_quality.mask) = Len(ds.codes)
             /\ \A k \in 1..Len(ds.codes) :
                   good_quality.mask[k] <=> ds.codes[k] \in Accept(product)
        ELSE good_quality.raised = "AttributeError"

\* an ls8 product: 1348 is good, the default family's 66 is not
C9_Witness ==
    /\ good_quality.raised = ""
    /\ product = ls8_usgs
    /\ \E k \in 1..Len(ds.codes) : ds.codes[k] = 1348 /\ good_quality.mask[k]
    /\ \E k \in 1..Len(ds.codes) : ds.codes[k] = 66 /\ ~good_quality.mask[k]

----------------------------------------------------------------------------
(* C11: the execution mode is given by the query (dask_chunks present or   *)
(* not) and rules the order of evaluation.  In eager mode every product is *)
(* still loaded through a deferred handle (dask_chunks={}), nothing is     *)
(* evaluated during the per-product loop, and the combined stack is        *)
(* evaluated exactly once, after concatenation and sorting and before it   *)
(* is returned.  In deferred mode load_ard never evaluates and returns the *)
(* combined stack still deferred.  (When no stack is combined, None is     *)
(* returned and nothing is evaluated in either mode.)                      *)

====
